---- MODULE Spec2Model ----
(***************************************************************************)
(* Verification model of ControlNet/omo-dotfile:                           *)
(*   - the text helpers of the Gotify plugin (normalizeText, preview,      *)
(*     escapeMarkdown),                                                    *)
(*   - the installer scripts (pull.sh, pull.ps1 and their gist variants),  *)
(*   - the Gotify notification plugin's event handlers.                    *)
(* A JavaScript string is a sequence of one-character strings; the         *)
(* horizontal ellipsis U+2026 is written as the token Ellipsis.            *)
(***************************************************************************)
EXTENDS Integers, Sequences, FiniteSets, TLC

VARIABLES
    \* text helpers
    s,          \* the argument of the helper under test
    head,       \* preview's head parameter
    tail,       \* preview's tail parameter
    fn,         \* which helper has been applied ("none" before the call)
    out,        \* the helper's return value
    \* installer scripts
    script,     \* which installer runs
    tool,       \* the download command the machine has
    noBackup,   \* NO_BACKUP=1 / -NoBackup
    fs,         \* the files of the config directory
    fs0,        \* the config directory as the run found it
    tmp,        \* the files of the temporary directory
    ipc,        \* index of the next step of the script
    exitCode,   \* Running while the script runs, then its exit status
    stderr,     \* the messages written to the error stream
    dl,         \* what happened to each download of the run
    io,         \* whether a copy or move of the run failed
    \* Gotify plugin (the HTTP-summarizer version)
    procEnv,    \* process.env: the variables the plugin reads when it is loaded
    env,        \* the plugin's environment: notification toggles, summarizer settings
    host,       \* the host: whether it runs one handler at a time, how many events it sends
    lastSent,   \* the duplicate-suppression map: session -> last notified message id
    handlers,   \* the handler invocations, one per event delivered so far
    pushes,     \* the requests sent to Gotify, with how each was answered
    nEvents     \* the number of events delivered so far

textVars == <<s, head, tail, fn, out>>

installVars == <<script, tool, noBackup, fs, fs0, tmp, ipc, exitCode, stderr, dl, io>>

pluginVars == <<procEnv, env, host, lastSent, handlers, pushes, nEvents>>

vars == <<textVars, installVars, pluginVars>>

\* what the actions of one part leave alone
notText == <<installVars, pluginVars>>
notInstall == <<textVars, pluginVars>>
notPlugin == <<textVars, installVars>>

----------------------------------------------------------------------------
(* Each specification runs one part of the repository; the other parts'     *)
(* variables rest at these values.                                          *)

TextIdle ==
    /\ s = <<>>
    /\ head = 0
    /\ tail = 0
    /\ fn = "none"
    /\ out = <<>>

InstallIdle ==
    /\ script = "none"
    /\ tool = "none"
    /\ noBackup = FALSE
    /\ fs = <<>>
    /\ fs0 = <<>>
    /\ tmp = <<>>
    /\ ipc = 0
    /\ exitCode = 0
    /\ stderr = {}
    /\ dl = <<>>
    /\ io = "ok"

PluginIdle ==
    /\ procEnv = <<>>
    /\ env = <<>>
    /\ host = <<>>
    /\ lastSent = <<>>
    /\ handlers = <<>>
    /\ pushes = {}
    /\ nEvents = 0

----------------------------------------------------------------------------
(* Bounds of the text model *)

MaxTextLen == 6
MaxHeadTail == 1
MaxEscLen == 2

Ellipsis == "ELLIPSIS"

\* the grave accent U+0060, which a TLA+ string literal cannot hold
Backtick == "BACKTICK"

Whitespace == {" ", "\n"}

TextAlphabet == {"a", "b", " ", "\n"}

\* the escapeSet of escapeMarkdown
EscapeSet ==
    {"\\", Backtick, "*", "_", "~",
     "[", "]", "(", ")",
     "#", "+", "-", ".", "!",
     ">", "|", "{", "}"}

EscAlphabet == EscapeSet \cup {"a", " "}

SeqsUpTo(A, n) == UNION {[1..k -> A] : k \in 0..n}

----------------------------------------------------------------------------
(* String.prototype.slice(start, end) on a sequence: negative indexes count *)
(* from the end, everything is clamped to [0, length].  -0 is 0.            *)

SliceIndex(len, i) ==
    IF i < 0 THEN (IF len + i < 0 THEN 0 ELSE len + i)
    ELSE (IF i > len THEN len ELSE i)

Slice(t, start, end) ==
    LET a == SliceIndex(Len(t), start)
        b == SliceIndex(Len(t), end)
    IN  IF a >= b THEN <<>> ELSE SubSeq(t, a + 1, b)

SliceFrom(t, start) == Slice(t, start, Len(t))

\* s.replace(/\s+/g, " "): every maximal run of whitespace becomes one space
RECURSIVE CollapseWs(_)
CollapseWs(t) ==
    IF t = <<>> THEN <<>>
    ELSE IF Head(t) \in Whitespace
         THEN IF Len(t) > 1 /\ t[2] \in Whitespace
              THEN CollapseWs(Tail(t))
              ELSE <<" ">> \o CollapseWs(Tail(t))
         ELSE <<Head(t)>> \o CollapseWs(Tail(t))

RECURSIVE TrimStart(_)
TrimStart(t) ==
    IF t # <<>> /\ Head(t) \in Whitespace THEN TrimStart(Tail(t)) ELSE t

RECURSIVE TrimEnd(_)
TrimEnd(t) ==
    IF t # <<>> /\ t[Len(t)] \in Whitespace
    THEN TrimEnd(SubSeq(t, 1, Len(t) - 1))
    ELSE t

Trim(t) == TrimEnd(TrimStart(t))

normalizeText(t) == Trim(CollapseWs(t))

previewBadThreshold(t0, h, tl) ==
    LET t == normalizeText(t0)
    IN  IF t = <<>> THEN <<>>
        ELSE IF Len(t) <= h + tl THEN t
        ELSE Slice(t, 0, h) \o <<Ellipsis>> \o SliceFrom(t, 0 - tl)

preview(t0, h, tl) ==
    LET t == normalizeText(t0)
    IN  IF t = <<>> THEN <<>>
        ELSE IF Len(t) <= h + tl + 3 THEN t
        ELSE Slice(t, 0, h) \o <<Ellipsis>> \o SliceFrom(t, 0 - tl)

RECURSIVE escapeMarkdownNoDot(_)
escapeMarkdownNoDot(t) ==
    IF t = <<>> THEN <<>>
    ELSE (IF Head(t) \in EscapeSet \ {"."} THEN <<"\\", Head(t)>> ELSE <<Head(t)>>)
         \o escapeMarkdownNoDot(Tail(t))

RECURSIVE escapeMarkdown(_)
escapeMarkdown(t) ==
    IF t = <<>> THEN <<>>
    ELSE (IF Head(t) \in EscapeSet THEN <<"\\", Head(t)>> ELSE <<Head(t)>>)
         \o escapeMarkdown(Tail(t))

----------------------------------------------------------------------------
(* The text helpers applied to bounded inputs *)

TextArgs ==
    /\ \/ /\ s \in SeqsUpTo(TextAlphabet, MaxTextLen)
          /\ head \in 0..MaxHeadTail
          /\ tail \in 0..MaxHeadTail
       \/ /\ s \in SeqsUpTo(EscAlphabet, MaxEscLen)
          /\ head = 0
          /\ tail = 0
    /\ fn = "none"
    /\ out = <<>>

CallNormalizeText ==
    /\ fn = "none"
    /\ fn' = "normalizeText"
    /\ out' = normalizeText(s)
    /\ UNCHANGED <<s, head, tail, notText>>

CallPreview ==
    /\ fn = "none"
    /\ fn' = "preview"
    /\ out' = preview(s, head, tail)
    /\ UNCHANGED <<s, head, tail, notText>>

CallEscapeMarkdown ==
    /\ fn = "none"
    /\ fn' = "escapeMarkdown"
    /\ out' = escapeMarkdown(s)
    /\ UNCHANGED <<s, head, tail, notText>>

TextNext ==
    \/ CallNormalizeText
    \/ CallPreview
    \/ CallEscapeMarkdown

TextInit == TextArgs /\ InstallIdle /\ PluginIdle

SpecText == TextInit /\ [][TextNext]_vars

----------------------------------------------------------------------------
(* Properties of the text helpers *)

RECURSIVE NonWs(_)
NonWs(t) ==
    IF t = <<>> THEN <<>>
    ELSE (IF Head(t) \in Whitespace THEN <<>> ELSE <<Head(t)>>) \o NonWs(Tail(t))

\* t is whitespace-normalized: single spaces only, none at either end
IsNormalized(t) ==
    /\ \A i \in 1..Len(t) : t[i] \in Whitespace => t[i] = " "
    /\ \A i \in 1..Len(t) : t[i] = " " => (i > 1 /\ i < Len(t) /\ t[i + 1] # " ")

\* undo backslash escaping: a backslash and the character after it stand for that character
RECURSIVE Unescape(_)
Unescape(t) ==
    IF t = <<>> THEN <<>>
    ELSE IF Head(t) = "\\" /\ Len(t) >= 2
         THEN <<t[2]>> \o Unescape(SubSeq(t, 3, Len(t)))
         ELSE <<Head(t)>> \o Unescape(Tail(t))

\* t is a run of units, each a backslash followed by a special character or one plain character
RECURSIVE WellEscaped(_)
WellEscaped(t) ==
    IF t = <<>> THEN TRUE
    ELSE IF Head(t) = "\\"
         THEN Len(t) >= 2 /\ t[2] \in EscapeSet /\ WellEscaped(SubSeq(t, 3, Len(t)))
         ELSE Head(t) \notin EscapeSet /\ WellEscaped(Tail(t))

CountSpecial(t) == Cardinality({i \in 1..Len(t) : t[i] \in EscapeSet})

\* C7 (as claimed): when the whitespace-normalized input is longer than
\* head + tail + 3, preview returns exactly head + 1 + tail characters: the first
\* head characters, one ellipsis, the last tail characters.
C7_PreviewTruncatedLength ==
    LET t == normalizeText(s)
    IN  (fn = "preview" /\ Len(t) > head + tail + 3) =>
            /\ Len(out) = head + 1 + tail
            /\ SubSeq(out, 1, head) = SubSeq(t, 1, head)
            /\ out[head + 1] = Ellipsis
            /\ SubSeq(out, head + 2, Len(out)) = SubSeq(t, Len(t) - tail + 1, Len(t))

\* C8: when the input has at most head + tail + 3 characters, preview returns the
\* whitespace-normalized input: same non-whitespace characters in the same order,
\* single spaces only inside, no ellipsis inserted.
C8_PreviewShortUnchanged ==
    (fn = "preview" /\ Len(s) <= head + tail + 3) =>
        /\ out = normalizeText(s)
        /\ IsNormalized(out)
        /\ NonWs(out) = NonWs(s)
        /\ \A i \in 1..Len(out) : out[i] # Ellipsis

C8_Witness ==
    /\ fn = "preview"
    /\ Len(s) = head + tail + 3
    /\ head = 1
    /\ tail = 1
    /\ out # s
    /\ Len(out) >= 3

\* C9: escapeMarkdown puts exactly one backslash before every character of the
\* escape set and copies every other character, so that the output is a run of
\* escaped specials and plain characters, and unescaping it gives the input.
C9_EscapeMarkdownExact ==
    fn = "escapeMarkdown" =>
        /\ WellEscaped(out)
        /\ Unescape(out) = s
        /\ Len(out) = Len(s) + CountSpecial(s)

C9_Witness ==
    /\ fn = "escapeMarkdown"
    /\ Len(s) = 2
    /\ s[1] = "\\"
    /\ s[2] = "a"
    /\ out = <<"\\", "\\", "a">>

----------------------------------------------------------------------------
(* The installer scripts.  "gist.sh" is pull.sh (the Gist installer),       *)
(* "repo.sh" the bash installer that pulls from the GitHub repository,      *)
(* "gist.ps1" and "repo.ps1" their PowerShell counterparts.                 *)

MaxStale == 1

Scripts == {"gist.sh", "repo.sh", "gist.ps1", "repo.ps1"}

IsBash(sc) == sc \in {"gist.sh", "repo.sh"}

Fetch(item) == [op |-> "fetch", arg |-> item]
Install(item) == [op |-> "install", arg |-> item]
Plugin(item) == [op |-> "plugin", arg |-> item]
Rename(path) == [op |-> "rename", arg |-> path]

\* the statements of each script's main part, in order
Program(sc) ==
    CASE sc = "gist.sh" ->
            <<Fetch("opencode.jsonc"), Fetch("oh-my-opencode.jsonc"),
              Install("opencode.jsonc"), Install("oh-my-opencode.jsonc"),
              Rename("opencode.json"), Rename("oh-my-opencode.json")>>
      [] sc = "repo.sh" ->
            <<Fetch("opencode.jsonc"), Fetch("oh-my-opencode.jsonc"), Fetch("_AGENTS.md"),
              Install("opencode.jsonc"), Install("oh-my-opencode.jsonc"), Install("_AGENTS.md"),
              Rename("opencode.json"), Rename("oh-my-opencode.json")>>
      [] sc = "gist.ps1" ->
            <<Fetch("opencode.jsonc"), Fetch("oh-my-opencode.jsonc"),
              Install("opencode.jsonc"), Install("oh-my-opencode.jsonc"),
              Rename("opencode.json"), Rename("oh-my-opencode.json")>>
      [] sc = "repo.ps1" ->
            <<Fetch("opencode.jsonc"), Fetch("oh-my-opencode.jsonc"), Fetch("_AGENTS.md"),
              Fetch("gotify-notify.js"),
              Install("opencode.jsonc"), Install("oh-my-opencode.jsonc"), Install("_AGENTS.md"),
              Plugin("gotify-notify.js"),
              Rename("opencode.json"), Rename("oh-my-opencode.json")>>
      [] OTHER -> <<>>

Items(sc) == {Program(sc)[i].arg : i \in {j \in DOMAIN Program(sc) : Program(sc)[j].op = "fetch"}}

\* where a downloaded item is installed, relative to the config directory
Dest(item) ==
    CASE item = "_AGENTS.md" -> "AGENTS.md"
      [] item = "gotify-notify.js" -> "plugins/gotify-notify.js"
      [] OTHER -> item

\* the paths of the config directory a script reads or writes
Paths(sc) ==
    {Dest(i) : i \in Items(sc)} \cup {"opencode.json", "oh-my-opencode.json"}

AllPaths == UNION {Paths(sc) : sc \in Scripts}

\* a path itself, <path>.bak-<stamp> and <path>.bak-<stamp>-<pid>
File(p) == [path |-> p, kind |-> "file"]
Bak(p) == [path |-> p, kind |-> "bak"]
BakPid(p) == [path |-> p, kind |-> "bakpid"]

FsKeys == [path : AllPaths, kind : {"file", "bak", "bakpid"}]

Absent == [src |-> "absent", of |-> ""]
Prev(p) == [src |-> "prev", of |-> p]           \* what was at p before the run
Stale(p) == [src |-> "stale", of |-> p]         \* an older backup with the same stamp
New(item) == [src |-> "new", of |-> item]       \* the downloaded item

Exists(k) == fs[k] # Absent

NoTmp == [i \in Items(script) |-> "absent"]

Step == Program(script)[ipc]

AtStep(op) ==
    /\ ipc \in 1..Len(Program(script))
    /\ Program(script)[ipc].op = op

\* the script ends: set -e / exit 1 / a terminating error; the EXIT trap (bash)
\* or the finally block (PowerShell) removes the temporary directory
Abort(code, lines) ==
    /\ ipc' = 0
    /\ exitCode' = code
    /\ stderr' = stderr \cup lines
    /\ tmp' = NoTmp

InstallEnv ==
    /\ script \in Scripts
    /\ tool \in (IF IsBash(script) THEN {"curl", "wget", "none"} ELSE {"Invoke-WebRequest"})
    /\ noBackup \in BOOLEAN
    /\ \E existing \in SUBSET Paths(script) :
       \E stale \in {x \in SUBSET Paths(script) : Cardinality(x) <= MaxStale} :
          fs = [k \in FsKeys |->
                  IF k.kind = "file" /\ k.path \in existing THEN Prev(k.path)
                  ELSE IF k.kind = "bak" /\ k.path \in stale THEN Stale(k.path)
                  ELSE Absent]
    /\ fs0 = fs
    /\ tmp = [i \in Items(script) |-> "absent"]
    /\ ipc = 1
    /\ exitCode = 0
    /\ stderr = {}
    /\ dl = [i \in Items(script) |-> "pending"]
    /\ io = "ok"

\* fetch / Download-File: the download succeeds with a non-empty file
FetchOk ==
    /\ AtStep("fetch")
    /\ tool # "none"
    /\ tmp' = [tmp EXCEPT ![Step.arg] = "data"]
    /\ dl' = [dl EXCEPT ![Step.arg] = "ok"]
    /\ ipc' = ipc + 1
    /\ UNCHANGED <<script, tool, noBackup, fs0, fs, exitCode, stderr, io, notInstall>>

\* the download command itself fails: under set -e (bash) the script exits with
\* the command's status at once; under $ErrorActionPreference = "Stop" the
\* cmdlet's error terminates the script.  Neither reaches the size test.
FetchFail ==
    /\ AtStep("fetch")
    /\ tool # "none"
    /\ dl' = [dl EXCEPT ![Step.arg] = "fail"]
    /\ \E code \in (IF IsBash(script) THEN {1, 2} ELSE {1}) :
          Abort(code,
                IF tool = "wget" THEN {}
                ELSE {[msg |-> tool, about |-> Step.arg]})
    /\ UNCHANGED <<script, tool, noBackup, fs0, fs, io, notInstall>>

\* the download command succeeds but leaves an empty file
FetchEmpty ==
    /\ AtStep("fetch")
    /\ tool # "none"
    /\ dl' = [dl EXCEPT ![Step.arg] = "empty"]
    /\ Abort(1, {[msg |-> "Download failed or empty", about |-> Step.arg]})
    /\ UNCHANGED <<script, tool, noBackup, fs0, fs, io, notInstall>>

\* bash only: neither curl nor wget is installed (need_cmd wget)
FetchNoTool ==
    /\ AtStep("fetch")
    /\ tool = "none"
    /\ dl' = [dl EXCEPT ![Step.arg] = "notool"]
    /\ Abort(1, {[msg |-> "Missing required command", about |-> "wget"]})
    /\ UNCHANGED <<script, tool, noBackup, fs0, fs, io, notInstall>>

\* Unique-BackupPath (PowerShell); the bash installers copy onto <dst>.bak-<stamp>
BackupPath(p) ==
    IF IsBash(script) THEN Bak(p)
    ELSE IF Exists(Bak(p)) THEN BakPid(p) ELSE Bak(p)

\* the backup test without the test of NO_BACKUP / -NoBackup's counterpart: never
DoBackupNever(p) == FALSE

DoBackup(p) == ~noBackup /\ Exists(File(p))

\* backup_and_install_jsonc / backup_and_install_file / Backup-And-Replace
BackupAndInstall ==
    /\ AtStep("install")
    /\ LET dst == Dest(Step.arg)
           backedUp == IF DoBackup(dst)
                       THEN [fs EXCEPT ![BackupPath(dst)] = fs[File(dst)]]
                       ELSE fs
       IN  \/ /\ fs' = [backedUp EXCEPT ![File(dst)] = New(Step.arg)]
              /\ tmp' = [tmp EXCEPT ![Step.arg] = "absent"]
              /\ ipc' = ipc + 1
              /\ UNCHANGED <<exitCode, stderr, io>>
           \/ /\ DoBackup(dst)                 \* the copy fails
              /\ io' = "failed"
              /\ Abort(1, {[msg |-> "copy", about |-> dst]})
              /\ UNCHANGED fs
           \/ /\ fs' = backedUp                \* the move fails
              /\ io' = "failed"
              /\ Abort(1, {[msg |-> "move", about |-> dst]})
    /\ UNCHANGED <<script, tool, noBackup, fs0, dl, notInstall>>

\* repo.ps1: plugins are moved into place without a backup
InstallPlugin ==
    /\ AtStep("plugin")
    /\ LET dst == Dest(Step.arg)
       IN  \/ /\ fs' = [fs EXCEPT ![File(dst)] = New(Step.arg)]
              /\ tmp' = [tmp EXCEPT ![Step.arg] = "absent"]
              /\ ipc' = ipc + 1
              /\ UNCHANGED <<exitCode, stderr, io>>
           \/ /\ io' = "failed"
              /\ Abort(1, {[msg |-> "move", about |-> dst]})
              /\ UNCHANGED fs
    /\ UNCHANGED <<script, tool, noBackup, fs0, dl, notInstall>>

\* the rename test made to depend on backups being enabled
RenameNeededWithBackupsOnly(p) == ~noBackup /\ Exists(File(p))

\* [[ -f "$json_path" ]] / Test-Path $JsonPath: NO_BACKUP plays no part
RenameNeeded(p) == Exists(File(p))

\* rename_json_if_exists / Rename-Json-IfExists
RenameJson ==
    /\ AtStep("rename")
    /\ LET p == Step.arg
           bak == IF Exists(Bak(p)) THEN BakPid(p) ELSE Bak(p)
       IN  \/ /\ ~RenameNeeded(p)
              /\ ipc' = ipc + 1
              /\ UNCHANGED <<fs, tmp, exitCode, stderr, io>>
           \/ /\ RenameNeeded(p)
              /\ fs' = [fs EXCEPT ![bak] = fs[File(p)], ![File(p)] = Absent]
              /\ ipc' = ipc + 1
              /\ UNCHANGED <<tmp, exitCode, stderr, io>>
           \/ /\ RenameNeeded(p)               \* the move fails
              /\ io' = "failed"
              /\ Abort(1, {[msg |-> "move", about |-> p]})
              /\ UNCHANGED fs
    /\ UNCHANGED <<script, tool, noBackup, fs0, dl, notInstall>>

\* the end of the script is reached: exit status 0
Finish ==
    /\ ipc = Len(Program(script)) + 1
    /\ script # "none"
    /\ ipc' = 0
    /\ exitCode' = 0
    /\ tmp' = NoTmp
    /\ UNCHANGED <<script, tool, noBackup, fs0, fs, stderr, dl, io, notInstall>>

InstallNext ==
    \/ FetchOk
    \/ FetchFail
    \/ FetchEmpty
    \/ FetchNoTool
    \/ BackupAndInstall
    \/ InstallPlugin
    \/ RenameJson
    \/ Finish

InstallInit == InstallEnv /\ TextIdle /\ PluginIdle

SpecInstall == InstallInit /\ [][InstallNext]_vars

Exited == script # "none" /\ ipc = 0

\* C10 (as claimed): a run in which a download failed or produced an empty file
\* ends with a non-zero exit status and the 'Download failed or empty: <url>'
\* message; a run exits 0 only when every download and install step succeeded.
C10_DownloadFailureReported ==
    Exited =>
        /\ \A i \in DOMAIN dl :
              dl[i] \in {"fail", "empty"} =>
                  /\ exitCode # 0
                  /\ [msg |-> "Download failed or empty", about |-> i] \in stderr
        /\ exitCode = 0 => ((\A i \in DOMAIN dl : dl[i] = "ok") /\ io = "ok")

\* what does hold: the exit status alone
C10_NonZeroOnFailure ==
    Exited =>
        /\ (\E i \in DOMAIN dl : dl[i] # "ok") => exitCode # 0
        /\ io # "ok" => exitCode # 0

Succeeded == Exited /\ exitCode = 0

ExistedBefore(p) == fs0[File(p)] # Absent

\* the items a script installs with backup_and_install_* / Backup-And-Replace,
\* and those it installs as plugins
InstalledItems(sc) ==
    {Program(sc)[i].arg : i \in {j \in DOMAIN Program(sc) : Program(sc)[j].op = "install"}}

PluginItems(sc) ==
    {Program(sc)[i].arg : i \in {j \in DOMAIN Program(sc) : Program(sc)[j].op = "plugin"}}

\* C11 as stated: after a successful run with backups enabled, every
\* destination (configs, AGENTS.md, plugin scripts) holds exactly the download,
\* and each one that existed before has its previous content in
\* <destination>.bak-<timestamp>.
C11_EveryDestinationBackedUp ==
    (Succeeded /\ ~noBackup) =>
        \A i \in Items(script) :
            /\ fs[File(Dest(i))] = New(i)
            /\ ExistedBefore(Dest(i)) => fs[Bak(Dest(i))] = Prev(Dest(i))

\* C11, amended: after a successful run with backups enabled, every
\* destination holds exactly the download; each .jsonc config and AGENTS.md
\* that existed before has its previous content in <destination>.bak-<timestamp>
\* or, in the PowerShell installers when that name was taken, in
\* <destination>.bak-<timestamp>-<pid>; a plugin script that existed before is
\* replaced without any backup.
C11_ConfigsBackedUpPluginsReplaced ==
    (Succeeded /\ ~noBackup) =>
        /\ \A i \in Items(script) : fs[File(Dest(i))] = New(i)
        /\ \A i \in InstalledItems(script) :
              ExistedBefore(Dest(i)) =>
                  IF IsBash(script) \/ fs0[Bak(Dest(i))] = Absent
                  THEN fs[Bak(Dest(i))] = Prev(Dest(i))
                  ELSE /\ fs[BakPid(Dest(i))] = Prev(Dest(i))
                       /\ fs[Bak(Dest(i))] = fs0[Bak(Dest(i))]
        /\ \A i \in PluginItems(script) :
              /\ fs[Bak(Dest(i))] = fs0[Bak(Dest(i))]
              /\ fs[BakPid(Dest(i))] = Absent

\* the repository's PowerShell installer succeeded over an existing AGENTS.md
\* and an existing plugin script: the first is backed up, the second is not
C11_Witness ==
    /\ Succeeded
    /\ ~noBackup
    /\ script = "repo.ps1"
    /\ ExistedBefore("AGENTS.md")
    /\ fs[Bak("AGENTS.md")] = Prev("AGENTS.md")
    /\ ExistedBefore("plugins/gotify-notify.js")
    /\ fs[File("plugins/gotify-notify.js")] = New("gotify-notify.js")

LegacyJson == {"opencode.json", "oh-my-opencode.json"}

\* C14: after a successful run neither opencode.json nor oh-my-opencode.json
\* exists, and each that existed before has its content in <name>.json.bak-<timestamp>
\* or, when that name was taken, in <name>.json.bak-<timestamp>-<pid>, with
\* backups enabled or disabled.
C14_LegacyJsonRenamed ==
    Succeeded =>
        \A p \in LegacyJson :
            /\ ~Exists(File(p))
            /\ ExistedBefore(p) =>
                  IF fs0[Bak(p)] = Absent
                  THEN fs[Bak(p)] = Prev(p)
                  ELSE fs[BakPid(p)] = Prev(p) /\ fs[Bak(p)] = fs0[Bak(p)]

\* a run with backups disabled renamed one legacy .json to the plain backup
\* name and the other, whose backup name was taken, to the name with the pid
C14_Witness ==
    /\ Succeeded
    /\ noBackup
    /\ ExistedBefore("opencode.json")
    /\ fs0[Bak("opencode.json")] # Absent
    /\ fs[BakPid("opencode.json")] = Prev("opencode.json")
    /\ ExistedBefore("oh-my-opencode.json")
    /\ fs[Bak("oh-my-opencode.json")] = Prev("oh-my-opencode.json")

----------------------------------------------------------------------------
(* The Gotify notification plugin (the version that summarizes over HTTP).  *)
(* Every await of a handler is a point where the handler waits for an       *)
(* answer; between two awaits a handler runs without interruption.          *)

MaxEvents == 2
MaxSerialEvents == 3
MaxListLen == 2

\* OPENCODE_NOTIFY_HEAD / OPENCODE_NOTIFY_TAIL, set to 1 here (default 50)
HEAD == 1
TAIL == 1

SummaryLimit == 200

\* model, endpoint, apiKey: whether the setting is non-empty after trimming
Envs == [complete : BOOLEAN, subagent : BOOLEAN, permission : BOOLEAN,
         error : BOOLEAN, question : BOOLEAN,
         model : BOOLEAN, endpoint : BOOLEAN, apiKey : BOOLEAN]

NOTIFY_COMPLETE == env.complete
NOTIFY_SUBAGENT == env.subagent
NOTIFY_PERMISSION == env.permission
NOTIFY_ERROR == env.error
NOTIFY_QUESTION == env.question

\* what an OPENCODE_NOTIFY_* variable can hold: nothing, "false", "true",
\* or some other text ("0")
ToggleValues == {"unset", "false", "true", "0"}

\* a toggle that is on only when its variable is "true" (used as a variant of
\* the next one)
OnOnlyIfTrue(v) == v = "true"

\* process.env.X !== "false"
OnUnlessFalse(v) == v # "false"

\* process.env.X === "true"
OnlyIfTrue(v) == v = "true"

\* normalizeBase: trim, then drop one trailing slash
normalizeBase(url) ==
    LET u == Trim(url)
    IN  IF u # <<>> /\ u[Len(u)] = "/" THEN SubSeq(u, 1, Len(u) - 1) ELSE u

\* the module-level constants of the plugin, read from process.env (an unset
\* summarizer variable reads as the empty string)
ReadEnv(pe) ==
    [complete |-> OnUnlessFalse(pe.COMPLETE),
     subagent |-> OnlyIfTrue(pe.SUBAGENT),
     permission |-> OnUnlessFalse(pe.PERMISSION),
     error |-> OnUnlessFalse(pe.ERROR),
     question |-> OnUnlessFalse(pe.QUESTION),
     model |-> Trim(pe.MODEL) # <<>>,
     endpoint |-> normalizeBase(pe.ENDPOINT) # <<>>,
     apiKey |-> Trim(pe.API_KEY) # <<>>]

\* a process.env that reads as the settings e
ProcEnvOf(e) ==
    [COMPLETE |-> IF e.complete THEN "unset" ELSE "false",
     SUBAGENT |-> IF e.subagent THEN "true" ELSE "unset",
     PERMISSION |-> IF e.permission THEN "unset" ELSE "false",
     ERROR |-> IF e.error THEN "unset" ELSE "false",
     QUESTION |-> IF e.question THEN "unset" ELSE "false",
     MODEL |-> IF e.model THEN <<"m">> ELSE <<>>,
     ENDPOINT |-> IF e.endpoint THEN <<"u">> ELSE <<>>,
     API_KEY |-> IF e.apiKey THEN <<"k">> ELSE <<>>]

\* summarizerConfig testing the model alone
summarizerConfigModelOnly == env.model

\* summarizerConfig() returns a config (TRUE) or null (FALSE)
summarizerConfig == env.model /\ env.endpoint /\ env.apiKey

\* the sessions of the host: a root session and a subagent session of it
Sessions == {"root", "child"}

ParentID(sess) == IF sess = "child" THEN "root" ELSE "none"

\* The messages a session can hold, by identifier:
\*   1 an assistant message with a long text, 2 one with a short text,
\*   3 an assistant message without text parts, 4 a compaction summary
\*   (info.summary set), 5 a user message.
MsgIds == 1..5

MsgKind(id) ==
    CASE id = 1 -> "long"
      [] id = 2 -> "short"
      [] id = 3 -> "empty"
      [] id = 4 -> "summary"
      [] OTHER -> "user"

Role(id) == IF MsgKind(id) = "user" THEN "user" ELSE "assistant"

\* info.summary of a message
IsSummary(id) == MsgKind(id) = "summary"

LongRaw == <<"*", "b", " ", "\n", "c", "d", "e", "_">>
ShortRaw == <<"a", ".", " ", " ", "b">>

\* the text parts of a message, joined
PartsText(id) ==
    CASE MsgKind(id) = "long" -> LongRaw
      [] MsgKind(id) = "empty" -> <<>>
      [] OTHER -> ShortRaw

\* no message: msgID is undefined
NoMsg == 0

extractAssistantText(id) ==
    IF id = NoMsg THEN <<>> ELSE normalizeText(PartsText(id))

\* what client.session.messages can return as data: the session's message
\* list as it is at that moment, any list of distinct messages
MessageLists ==
    {l \in SeqsUpTo(MsgIds, MaxListLen) : \A i, j \in DOMAIN l : i # j => l[i] # l[j]}

\* the loop of sendLatestAssistant: the last assistant message that is no summary
RECURSIVE LatestAssistantFrom(_, _)
LatestAssistantFrom(list, i) ==
    IF i = 0 THEN NoMsg
    ELSE IF Role(list[i]) = "assistant" /\ ~IsSummary(list[i])
         THEN list[i]
         ELSE LatestAssistantFrom(list, i - 1)

LatestAssistant(list) == LatestAssistantFrom(list, Len(list))

\* isChildSession with the test negated
isChildSessionInverted(outcome, sess) ==
    ~(outcome = "data" /\ ParentID(sess) # "none")

\* isChildSession: !!response?.data?.parentID, false when the lookup throws
isChildSession(outcome, sess) ==
    outcome = "data" /\ ParentID(sess) # "none"

\* what client.session.get can do: return the session, return no data, throw
GetOutcomes == {"data", "nodata", "throws"}

\* what the summarizer endpoint can answer (a timeout is the timer's doing)
NetError == [net |-> "error", ok |-> FALSE, payload |-> "unparsable"]

HttpResponses ==
    {NetError}
    \cup [net : {"ok"}, ok : {FALSE}, payload : {"notext", "summary"}]
    \cup [net : {"ok"}, ok : {TRUE}, payload : {"unparsable", "notext", "long", "summary"}]

TimedOut == [net |-> "timeout", ok |-> FALSE, payload |-> "unparsable"]

SummaryText == <<"s", "u", "m", ".">>
LongSummary == [i \in 1..(SummaryLimit + 1) |-> "x"]

\* postJSON without the response.ok test
postJSONNoStatusCheck(r) ==
    IF r.net # "ok" THEN "null"
    ELSE IF r.payload = "unparsable" THEN "null"
    ELSE r.payload

\* postJSON: the parsed payload, or null on abort, network error, non-2xx, bad JSON
postJSON(r) ==
    IF r.net # "ok" THEN "null"
    ELSE IF ~r.ok THEN "null"
    ELSE IF r.payload = "unparsable" THEN "null"
    ELSE r.payload

extractOpenAIText(data) ==
    CASE data = "summary" -> normalizeText(SummaryText)
      [] data = "long" -> LongSummary
      [] OTHER -> <<>>

\* the summary one request yields, <<>> when it yields none
\* (if (chatData) { ... if (summary && summary.length <= 200) return summary })
SummaryFrom(r) ==
    LET data == postJSON(r)
        summary == IF data = "null" THEN <<>> ELSE extractOpenAIText(data)
    IN  IF summary # <<>> /\ Len(summary) <= SummaryLimit THEN summary ELSE <<>>

\* the characters of the notification texts that are not modelled one by one
Check == "CHECK"

CompleteMessage(body) == <<Check, " ">> \o escapeMarkdown(body)
SubagentMessage == <<Check, " ", "Subagent task completed">>
ErrorMessage == <<"CROSS", " ", "Session encountered an error">>
PermissionMessage == <<"LOCK", " ", "Permission request">>
QuestionText == LongRaw
QuestionMessage == <<"QMARK", " ">> \o escapeMarkdown(preview(QuestionText, HEAD, TAIL))

----------------------------------------------------------------------------
(* Handler invocations *)

Free ==
    [kind |-> "none", sess |-> "none", pc |-> "free", lookup |-> "none",
     last |-> NoMsg, chat |-> "none", timer |-> FALSE, error |-> "none"]

Handlers == 1..MaxSerialEvents

Active(h) == handlers[h].pc \notin {"free", "returned", "rejected"}

\* the host delivers the next event: at once, or (host.serial) only when no
\* handler is still running
CanDeliver ==
    /\ env # <<>>
    /\ nEvents < host.events
    /\ host.serial => \A h \in Handlers : ~Active(h)

\* How a summarizer request ended, for the record: "listed" is a timeout, a
\* non-2xx status, an unparsable payload or one without text; "other" a network
\* error or a summary over the length limit; "ok" a usable summary.
ClassOf(r) ==
    CASE r.net = "timeout" -> "listed"
      [] r.net = "error" -> "other"
      [] ~r.ok -> "listed"
      [] r.payload \in {"unparsable", "notext"} -> "listed"
      [] r.payload = "long" -> "other"
      [] OTHER -> "ok"

\* what the session lookup of a handler returned, for the record
LookupOf(outcome, sess) ==
    IF outcome # "data" THEN "failed"
    ELSE IF ParentID(sess) # "none" THEN "parent" ELSE "noparent"

\* the handler's promise settles; its locals are gone
Ended(hr, how) == [Free EXCEPT !.kind = hr.kind, !.pc = how, !.error = hr.error]

Return(h, hr) ==
    /\ handlers' = [handlers EXCEPT ![h] = Ended(hr, "returned")]
    /\ UNCHANGED pushes

\* gotifyPush up to its await: GOTIFY_URL and the token are set (they are
\* required) and the message is not empty, so the request is sent
gotifyPush(h, hr, kind, message, from, resp) ==
    /\ handlers' = [handlers EXCEPT ![h] = [hr EXCEPT !.pc = "push", !.timer = FALSE]]
    /\ pushes' = pushes \cup
          {[ev |-> h, kind |-> kind, sess |-> hr.sess, last |-> hr.last,
            body |-> message, from |-> from, chat |-> hr.chat, resp |-> resp,
            lookup |-> hr.lookup, result |-> "pending"]}

\* event: session.idle, up to the await of isChildSession
DeliverIdle(sess) ==
    /\ CanDeliver
    /\ handlers' = [handlers EXCEPT ![nEvents + 1] =
                        [Free EXCEPT !.kind = "idle", !.sess = sess, !.pc = "get"]]
    /\ nEvents' = nEvents + 1
    /\ UNCHANGED <<procEnv, env, host, lastSent, pushes, notPlugin>>

\* event.properties.error of a session.error event: its name and the words of
\* its message
Errors ==
    {[name |-> "AbortedError", message |-> <<"cancelled">>],
     [name |-> "Error", message |-> <<"operation", "was", "aborted">>],
     [name |-> "Error", message |-> <<"boom">>]}

\* the abort test by the error's name alone
IsAbortByNameOnly(error) == error.name = "AbortedError"

\* errorName === "AbortedError" || errorMsg.includes("aborted")
IsAbort(error) ==
    \/ error.name = "AbortedError"
    \/ \E i \in DOMAIN error.message : error.message[i] = "aborted"

\* event: session.error, up to its first await
DeliverError(sess, error) ==
    /\ CanDeliver
    /\ LET h == nEvents + 1
           hr == [Free EXCEPT !.kind = "error", !.sess = sess, !.error = error]
       IN  IF ~NOTIFY_ERROR \/ IsAbort(error) THEN Return(h, hr)
           ELSE IF sess # "none"
                THEN /\ handlers' = [handlers EXCEPT ![h] = [hr EXCEPT !.pc = "get"]]
                     /\ UNCHANGED pushes
                ELSE gotifyPush(h, hr, "error", ErrorMessage, "fixed", "none")
    /\ nEvents' = nEvents + 1
    /\ UNCHANGED <<procEnv, env, host, lastSent, notPlugin>>

\* permission.ask
DeliverPermission ==
    /\ CanDeliver
    /\ LET h == nEvents + 1
           hr == [Free EXCEPT !.kind = "permission"]
       IN  IF NOTIFY_PERMISSION
           THEN gotifyPush(h, hr, "permission", PermissionMessage, "fixed", "none")
           ELSE Return(h, hr)
    /\ nEvents' = nEvents + 1
    /\ UNCHANGED <<procEnv, env, host, lastSent, notPlugin>>

\* tool.execute.before
DeliverTool(name) ==
    /\ CanDeliver
    /\ LET h == nEvents + 1
           hr == [Free EXCEPT !.kind = "tool"]
       IN  IF name = "question" /\ NOTIFY_QUESTION
           THEN gotifyPush(h, hr, "question", QuestionMessage, "preview", "none")
           ELSE Return(h, hr)
    /\ nEvents' = nEvents + 1
    /\ UNCHANGED <<procEnv, env, host, lastSent, notPlugin>>

\* client.session.get settles: the rest of isChildSession and the branch on it
GetResponds(h, outcome) ==
    /\ handlers[h].pc = "get"
    /\ LET hr == [handlers[h] EXCEPT !.lookup = LookupOf(outcome, handlers[h].sess)]
           isChild == isChildSession(outcome, hr.sess)
       IN  IF hr.kind = "idle"
           THEN IF isChild
                THEN IF NOTIFY_SUBAGENT
                     THEN gotifyPush(h, hr, "subagent", SubagentMessage, "fixed", "none")
                     ELSE Return(h, hr)
                ELSE IF NOTIFY_COMPLETE
                     THEN /\ handlers' = [handlers EXCEPT ![h] = [hr EXCEPT !.pc = "messages"]]
                          /\ UNCHANGED pushes
                     ELSE Return(h, hr)
           ELSE IF isChild
                THEN Return(h, hr)
                ELSE gotifyPush(h, hr, "error", ErrorMessage, "fixed", "none")
    /\ UNCHANGED <<procEnv, env, host, lastSent, nEvents, notPlugin>>

\* sendLatestAssistant from the answer of client.session.messages to its next
\* await: pick the message, test lastSent, and either push the preview (no
\* summarizer, or nothing to summarize) or send the chat/completions request
SendLatest(h, list) ==
    LET hr0 == handlers[h]
        last == LatestAssistant(list)
        text == extractAssistantText(last)
        hr == [hr0 EXCEPT !.last = last]
    IN  IF list = <<>> \/ last = NoMsg THEN Return(h, hr0)
        ELSE IF lastSent[hr0.sess] = last THEN Return(h, hr0)
        ELSE IF ~summarizerConfig \/ text = <<>>
             THEN IF preview(text, HEAD, TAIL) = <<>>
                  THEN Return(h, hr0)
                  ELSE gotifyPush(h, hr, "complete",
                                  CompleteMessage(preview(text, HEAD, TAIL)),
                                  "preview", "none")
             ELSE /\ handlers' = [handlers EXCEPT ![h] =
                                     [hr EXCEPT !.pc = "chat", !.timer = TRUE]]
                  /\ UNCHANGED pushes

\* client.session.messages returns the list
MessagesResponds(h, list) ==
    /\ handlers[h].pc = "messages"
    /\ SendLatest(h, list)
    /\ UNCHANGED <<procEnv, env, host, lastSent, nEvents, notPlugin>>

\* client.session.messages returns no data (list = []) or throws (caught by
\* the try of the session.idle branch)
MessagesFails(h) ==
    /\ handlers[h].pc = "messages"
    /\ Return(h, handlers[h])
    /\ UNCHANGED <<procEnv, env, host, lastSent, nEvents, notPlugin>>

\* summarizeWithLLM after the chat/completions request settled with r
ChatSettles(h, r) ==
    LET hr == [handlers[h] EXCEPT !.chat = ClassOf(r)]
    IN  IF SummaryFrom(r) # <<>>
        THEN gotifyPush(h, hr, "complete", CompleteMessage(SummaryFrom(r)), "summary", "none")
        ELSE /\ handlers' = [handlers EXCEPT ![h] = [hr EXCEPT !.pc = "responses", !.timer = TRUE]]
             /\ UNCHANGED pushes

\* summarizeWithLLM after the /responses request settled with r, and the
\* fallback of sendLatestAssistant
ResponsesSettles(h, r) ==
    LET hr == handlers[h]
        summary == SummaryFrom(r)
        text == extractAssistantText(hr.last)
        body == IF summary # <<>> THEN summary ELSE preview(text, HEAD, TAIL)
    IN  IF body = <<>> THEN Return(h, hr)
        ELSE gotifyPush(h, hr, "complete", CompleteMessage(body),
                        IF summary # <<>> THEN "summary" ELSE "preview", ClassOf(r))

ChatResponds(h, r) ==
    /\ handlers[h].pc = "chat"
    /\ ChatSettles(h, r)
    /\ UNCHANGED <<procEnv, env, host, lastSent, nEvents, notPlugin>>

\* postJSON's timer: controller.abort() after SUMMARIZER_TIMEOUT
ChatTimeout(h) ==
    /\ handlers[h].pc = "chat"
    /\ handlers[h].timer
    /\ ChatSettles(h, TimedOut)
    /\ UNCHANGED <<procEnv, env, host, lastSent, nEvents, notPlugin>>

ResponsesResponds(h, r) ==
    /\ handlers[h].pc = "responses"
    /\ ResponsesSettles(h, r)
    /\ UNCHANGED <<procEnv, env, host, lastSent, nEvents, notPlugin>>

ResponsesTimeout(h) ==
    /\ handlers[h].pc = "responses"
    /\ handlers[h].timer
    /\ ResponsesSettles(h, TimedOut)
    /\ UNCHANGED <<procEnv, env, host, lastSent, nEvents, notPlugin>>

\* whether anything catches a rejection of gotifyPush in this handler
\* (only session.idle wraps its body in try/catch)
CatchesPushError(kind) == kind = "idle"

\* the fetch of gotifyPush settles: a response (2xx or not), or a network error
PushResponds(h, outcome) ==
    /\ handlers[h].pc = "push"
    /\ pushes' = {IF p.ev = h THEN [p EXCEPT !.result = outcome] ELSE p : p \in pushes}
    /\ LET hr == handlers[h]
       IN  IF outcome = "neterr"
           THEN /\ handlers' = [handlers EXCEPT ![h] =
                     Ended(hr, IF CatchesPushError(hr.kind) THEN "returned" ELSE "rejected")]
                /\ UNCHANGED lastSent
           ELSE /\ handlers' = [handlers EXCEPT ![h] = Ended(hr, "returned")]
                /\ lastSent' = IF hr.kind = "idle" /\ hr.last # NoMsg
                               THEN [lastSent EXCEPT ![hr.sess] = hr.last]
                               ELSE lastSent
    /\ UNCHANGED <<procEnv, env, host, nEvents, notPlugin>>

PluginStart ==
    /\ lastSent = [x \in Sessions |-> NoMsg]
    /\ handlers = [h \in Handlers |-> Free]
    /\ pushes = {}
    /\ nEvents = 0

PluginNext ==
    \/ \E sess \in Sessions : DeliverIdle(sess)
    \/ \E sess \in Sessions \cup {"none"}, error \in Errors : DeliverError(sess, error)
    \/ DeliverPermission
    \/ \E name \in {"question", "bash"} : DeliverTool(name)
    \/ \E h \in Handlers, o \in GetOutcomes : GetResponds(h, o)
    \/ \E h \in Handlers, l \in MessageLists : MessagesResponds(h, l)
    \/ \E h \in Handlers : MessagesFails(h)
    \/ \E h \in Handlers, r \in HttpResponses : ChatResponds(h, r)
    \/ \E h \in Handlers : ChatTimeout(h)
    \/ \E h \in Handlers, r \in HttpResponses : ResponsesResponds(h, r)
    \/ \E h \in Handlers : ResponsesTimeout(h)
    \/ \E h \in Handlers, o \in {"ok", "non2xx", "neterr"} : PushResponds(h, o)

\* the environments of the two plugin specifications: permission, error and
\* question notifications on, the summarizer fully set or not set at all
PluginEnvs ==
    {e \in Envs : e.permission /\ e.error /\ e.question
                  /\ e.model = e.endpoint /\ e.endpoint = e.apiKey}

\* the host as section 5 of the specification describes it: one handler at a time
SerialInit ==
    /\ env \in {e \in PluginEnvs : e.complete /\ ~e.subagent}
    /\ procEnv = ProcEnvOf(env)
    /\ host = [serial |-> TRUE,
               events |-> IF summarizerConfig THEN MaxEvents ELSE MaxSerialEvents]
    /\ PluginStart
    /\ TextIdle
    /\ InstallIdle

SpecSerial == SerialInit /\ [][PluginNext]_vars

\* the host delivering events while earlier handlers still wait at an await
PluginInit ==
    /\ env \in PluginEnvs
    /\ procEnv = ProcEnvOf(env)
    /\ host = [serial |-> FALSE, events |-> MaxEvents]
    /\ PluginStart
    /\ TextIdle
    /\ InstallIdle

SpecPlugin == PluginInit /\ [][PluginNext]_vars

\* The environments of the specification of the settings: every value of every
\* toggle with the summarizer set, and every summarizer setting (unset, blank,
\* a lone slash, a value) with the toggles unset.
ToggleProcEnvs ==
    [COMPLETE : ToggleValues, SUBAGENT : ToggleValues, PERMISSION : ToggleValues,
     ERROR : ToggleValues, QUESTION : ToggleValues,
     MODEL : {<<"m">>}, ENDPOINT : {<<"u", "/">>}, API_KEY : {<<"k">>}]

SummarizerProcEnvs ==
    [COMPLETE : {"unset"}, SUBAGENT : {"unset"}, PERMISSION : {"unset"},
     ERROR : {"unset"}, QUESTION : {"unset"},
     MODEL : {<<>>, <<" ">>, <<"m">>},
     ENDPOINT : {<<>>, <<" ">>, <<"/">>, <<"u", "/">>},
     API_KEY : {<<>>, <<" ">>, <<"k">>}]

MaxEnvEvents == 1

\* the plugin loaded under each of these environments, one event at a time
EnvInit ==
    /\ procEnv \in ToggleProcEnvs \cup SummarizerProcEnvs
    /\ env = ReadEnv(procEnv)
    /\ host = [serial |-> TRUE, events |-> MaxEnvEvents]
    /\ PluginStart
    /\ TextIdle
    /\ InstallIdle

SpecEnv == EnvInit /\ [][PluginNext]_vars

----------------------------------------------------------------------------
(* Properties of the plugin *)

CompletionPushes == {p \in pushes : p.kind = "complete"}

\* C1: with lastSent, no session ever gets two completion notifications for
\* the same assistant message: two delivered completion pushes of one session
\* for one message identifier are the same push.  Stated for the host that
\* runs one handler at a time.
C1_NoDuplicateCompletion ==
    \A p, q \in CompletionPushes :
        (p.sess = q.sess /\ p.last = q.last /\ p.result = "ok" /\ q.result = "ok")
            => p.ev = q.ev

\* a session.idle handler that has passed the lastSent test for its message and
\* has not yet reached lastSent.set
BetweenCheckAndSet(h) ==
    /\ handlers[h].kind = "idle"
    /\ handlers[h].last # NoMsg
    /\ handlers[h].pc \in {"chat", "responses", "push"}

\* C2: the lastSent test and the lastSent update of one session.idle handling
\* are one step: no handler is between its test and its update while another
\* handler is there for the same session and the same message.
C2_CheckAndUpdateOneStep ==
    \A h1, h2 \in Handlers :
        (h1 # h2 /\ BetweenCheckAndSet(h1) /\ BetweenCheckAndSet(h2)
         /\ handlers[h1].sess = handlers[h2].sess)
            => handlers[h1].last # handlers[h2].last

PreviewBody(p) == CompleteMessage(preview(extractAssistantText(p.last), HEAD, TAIL))

\* C3 as stated: whenever one summarizer request timed out, got a non-2xx
\* status, or got a malformed or empty payload, the completion notification
\* carries the preview of the assistant text.
C3_AnyFailedRequestMeansPreview ==
    \A p \in CompletionPushes :
        (p.chat = "listed" \/ p.resp = "listed")
            => (p.from = "preview" /\ p.body = PreviewBody(p))

\* C3, amended: summarizeWithLLM never makes the session.idle handler reject,
\* and the completion notification carries a summary exactly when the
\* chat/completions request or, after that one failed, the /responses request
\* gave a usable summary; in every other case (both failed, or none was made)
\* it carries preview(text, HEAD, TAIL).
C3_PreviewWhenBothRequestsFail ==
    /\ \A h \in Handlers : handlers[h].kind = "idle" => handlers[h].pc # "rejected"
    /\ \A p \in CompletionPushes :
        /\ p.from = "summary" <=> (p.chat = "ok" \/ p.resp = "ok")
        /\ p.from # "summary" => (p.from = "preview" /\ p.body = PreviewBody(p))
        /\ p.from = "summary" => p.body = CompleteMessage(normalizeText(SummaryText))
        /\ p.resp # "none" => p.chat \in {"listed", "other"}

\* both requests failed in a listed way and the preview was pushed
C3_Witness ==
    \E p \in CompletionPushes :
        /\ p.chat = "listed"
        /\ p.resp = "listed"
        /\ p.from = "preview"
        /\ p.result = "ok"

\* C4: no handler invocation ever rejects to the host.
C4_NoHandlerRejects ==
    \A h \in Handlers : handlers[h].pc # "rejected"

\* C5: every outbound call a handler awaits (summarizer request, Gotify push)
\* is under a timer that ends the wait.
C5_EveryAwaitedCallHasTimeout ==
    \A h \in Handlers :
        handlers[h].pc \in {"chat", "responses", "push"} => handlers[h].timer

IdlePushes == {p \in pushes : p.kind \in {"complete", "subagent"}}

C12_TogglesDefaultAndBinding ==
    /\ NOTIFY_COMPLETE <=> procEnv.COMPLETE # "false"
    /\ NOTIFY_SUBAGENT <=> procEnv.SUBAGENT = "true"
    /\ NOTIFY_PERMISSION <=> procEnv.PERMISSION # "false"
    /\ NOTIFY_ERROR <=> procEnv.ERROR # "false"
    /\ NOTIFY_QUESTION <=> procEnv.QUESTION # "false"
    /\ \A p \in pushes :
        /\ p.kind = "complete" => procEnv.COMPLETE # "false"
        /\ p.kind = "subagent" => procEnv.SUBAGENT = "true"
        /\ p.kind = "permission" => procEnv.PERMISSION # "false"
        /\ p.kind = "error" => procEnv.ERROR # "false"
        /\ p.kind = "question" => procEnv.QUESTION # "false"

\* a permission request was handled with OPENCODE_NOTIFY_PERMISSION=false and
\* nothing was pushed, while completion is on with a value that is neither
\* "true" nor "false"
C12_Witness ==
    /\ procEnv.PERMISSION = "false"
    /\ procEnv.COMPLETE = "0"
    /\ \E h \in Handlers : handlers[h].kind = "permission" /\ handlers[h].pc = "returned"
    /\ pushes = {}

\* C15: when one of model, endpoint or API key is empty after trimming, no
\* summarizer request is made and the completion notification carries the
\* preview.
C15_NoRequestUnlessConfigured ==
    (Trim(procEnv.MODEL) = <<>> \/ Trim(procEnv.ENDPOINT) = <<>> \/ Trim(procEnv.API_KEY) = <<>>)
        => /\ \A h \in Handlers : handlers[h].pc \notin {"chat", "responses"}
           /\ \A p \in CompletionPushes :
                /\ p.chat = "none"
                /\ p.resp = "none"
                /\ p.from = "preview"
                /\ p.body = PreviewBody(p)

\* with a model and an endpoint but a blank API key, the completion of the
\* long message was pushed as its preview
C15_Witness ==
    /\ procEnv.MODEL = <<"m">>
    /\ procEnv.ENDPOINT = <<"u", "/">>
    /\ procEnv.API_KEY = <<" ">>
    /\ \E p \in CompletionPushes :
        /\ p.from = "preview"
        /\ MsgKind(p.last) = "long"
        /\ p.result = "ok"

ErrorPushes == {p \in pushes : p.kind = "error"}

\* the abort of the claim: name 'AbortedError' or a message containing 'aborted'
NamedOrSaysAborted(error) ==
    \/ error.name = "AbortedError"
    \/ \E i \in DOMAIN error.message : error.message[i] = "aborted"

\* an abort error is dropped at once: its handler has returned, never looked
\* the session up and never pushed
AbortsDropped ==
    \A h \in Handlers :
        (handlers[h].kind = "error" /\ NamedOrSaysAborted(handlers[h].error))
            => /\ handlers[h].pc = "returned"
               /\ \A p \in pushes : p.ev # h

----------------------------------------------------------------------------
(* OmoEnvRemoverPlugin: the experimental.chat.system.transform hook.  A      *)
(* segment is a sequence of pieces of text; the opening tag <omo-env> is the  *)
(* piece "<omo-" followed at once by the piece "env>", so that a tag can     *)
(* also come to be when what stood between its two halves is removed.         *)

MaxSegLen == 6
MaxMixedSegLen == 2

OmoAlphabet == {"<omo-", "<OMO-", "env>", "</omo-env>", "x", "\n"}

\* an element of output.system: a string, or something else
Str(seg) == [type |-> "string", value |-> seg]
Obj(n) == [type |-> "object", value |-> n]

\* <omo-env> starts at position i (the i flag: in any letter case)
OpensAt(seg, i) ==
    /\ i + 1 <= Len(seg)
    /\ seg[i] \in {"<omo-", "<OMO-"}
    /\ seg[i + 1] = "env>"

ClosesAt(seg, j) == j <= Len(seg) /\ seg[j] = "</omo-env>"

\* the first </omo-env> behind the opening tag at i (the lazy [\s\S]*?), 0 if none
FirstClose(seg, i) ==
    IF \E j \in (i + 2)..Len(seg) : ClosesAt(seg, j)
    THEN CHOOSE j \in (i + 2)..Len(seg) :
            /\ ClosesAt(seg, j)
            /\ \A k \in (i + 2)..(j - 1) : ~ClosesAt(seg, k)
    ELSE 0

\* segment.replace(OMO_ENV_BLOCK_RE, ""): one pass from the left over the
\* segment as it was given; each match is cut out and the search goes on
\* behind it
RECURSIVE RemoveBlocksFrom(_, _)
RemoveBlocksFrom(seg, i) ==
    IF i > Len(seg) THEN <<>>
    ELSE IF OpensAt(seg, i) /\ FirstClose(seg, i) # 0
         THEN RemoveBlocksFrom(seg, FirstClose(seg, i) + 1)
         ELSE <<seg[i]>> \o RemoveBlocksFrom(seg, i + 1)

RemoveBlocks(seg) == RemoveBlocksFrom(seg, 1)

\* .replace(/\n{3,}/g, "\n\n")
RECURSIVE CollapseNewlines(_)
CollapseNewlines(seg) ==
    IF Len(seg) >= 3 /\ seg[1] = "\n" /\ seg[2] = "\n" /\ seg[3] = "\n"
    THEN CollapseNewlines(Tail(seg))
    ELSE IF seg = <<>> THEN <<>>
         ELSE <<Head(seg)>> \o CollapseNewlines(Tail(seg))

\* the callback of output.system.map
TransformSegment(segment) ==
    IF segment.type # "string" THEN segment
    ELSE Str(Trim(CollapseNewlines(RemoveBlocks(segment.value))))

transform(system) == [i \in DOMAIN system |-> TransformSegment(system[i])]

OmoSystems ==
    {<<Str(a)>> : a \in SeqsUpTo(OmoAlphabet, MaxSegLen)}
    \cup {<<Obj(1), Str(a), Obj(2)>> : a \in SeqsUpTo(OmoAlphabet, MaxMixedSegLen)}
    \cup {<<Str(a), Obj(1), Str(b)>> : a, b \in SeqsUpTo(OmoAlphabet, MaxMixedSegLen)}

OmoArgs ==
    /\ s \in OmoSystems
    /\ head = 0
    /\ tail = 0
    /\ fn = "none"
    /\ out = <<>>

\* the host calls the hook: output.system = output.system.map(...)
CallTransform ==
    /\ fn = "none"
    /\ fn' = "transform"
    /\ out' = transform(s)
    /\ UNCHANGED <<s, head, tail, notText>>

OmoNext == CallTransform

OmoInit == OmoArgs /\ InstallIdle /\ PluginIdle

SpecOmo == OmoInit /\ [][OmoNext]_vars

\* a complete <omo-env>...</omo-env> block, in any letter case
ContainsBlock(seg) ==
    \E i, j \in DOMAIN seg : OpensAt(seg, i) /\ j >= i + 2 /\ ClosesAt(seg, j)

\* C13: after the hook has run, no string segment of output.system contains a
\* complete <omo-env>...</omo-env> block, and every segment that is no string
\* is unchanged at its position.
C13_NoBlockLeft ==
    fn = "transform" =>
        /\ DOMAIN out = DOMAIN s
        /\ \A i \in DOMAIN out :
              IF s[i].type = "string"
              THEN out[i].type = "string" /\ ~ContainsBlock(out[i].value)
              ELSE out[i] = s[i]

\* what holds: the segments that are no strings keep their place and value, and
\* every block of the segment as it was given is cut out
C13_GivenBlocksRemoved ==
    fn = "transform" =>
        /\ DOMAIN out = DOMAIN s
        /\ \A i \in DOMAIN out :
              IF s[i].type = "string"
              THEN /\ out[i].type = "string"
                   /\ Len(out[i].value) <= Len(s[i].value)
                   /\ ContainsBlock(s[i].value) => Len(out[i].value) < Len(s[i].value)
              ELSE out[i] = s[i]

----------------------------------------------------------------------------
(* The older Gotify plugin (src/plugins/gotify-notify.js), which summarizes  *)
(* by prompting an ephemeral '[Summarizer]' session of the host.  It uses    *)
(* the plugin variables; host.sessions holds the summarizer sessions and     *)
(* host.idle the session.idle events the host has raised for them and not    *)
(* yet delivered.                                                             *)

MaxLegacyEvents == 2

SummarizerIds == {"sum1", "sum2"}

LegacySessions == {"root"} \cup SummarizerIds

\* OPENCODE_GOTIFY_NOTIFY_SUMMARIZER: unset, without '/', "provider/model"
LegacySummarizerValues == {<<>>, <<"m">>, <<"p", "/", "m">>}

\* parseSummarizer: null (FALSE) unless the trimmed setting contains '/'
parseSummarizer(setting) ==
    /\ Trim(setting) # <<>>
    /\ \E i \in DOMAIN Trim(setting) : Trim(setting)[i] = "/"

NoSession == [state |-> "none", parent |-> "none", replied |-> FALSE]

Live(sess) == sess = "root" \/ (sess \in SummarizerIds /\ host.sessions[sess].state = "live")

\* parentID of a session of the host
LegacyParentID(sess) == IF sess = "root" THEN "none" ELSE host.sessions[sess].parent

\* the messages of a session: the root session ends with an assistant message
\* with a long text; a summarizer session holds the prompt and, once the
\* model has answered, the answer
LegacyMessages(sess) ==
    IF sess = "root" THEN <<5, 1>>
    ELSE IF host.sessions[sess].replied THEN <<5, 2>> ELSE <<5>>

\* the loop of the older sendLatestAssistant: the last assistant message
RECURSIVE LegacyLatestFrom(_, _)
LegacyLatestFrom(list, i) ==
    IF i = 0 THEN NoMsg
    ELSE IF Role(list[i]) = "assistant" THEN list[i]
         ELSE LegacyLatestFrom(list, i - 1)

LFree ==
    [kind |-> "none", sess |-> "none", pc |-> "free", lookup |-> "none",
     last |-> NoMsg, chat |-> "none", timer |-> FALSE, error |-> "none",
     sum |-> "none", body |-> <<>>]

\* isChildSession of the older plugin (the same code)
legacyIsChild(outcome, sess) ==
    outcome = "data" /\ LegacyParentID(sess) # "none"

LegacyLookupOf(outcome, sess) ==
    IF outcome # "data" THEN "failed"
    ELSE IF LegacyParentID(sess) # "none" THEN "parent" ELSE "noparent"

\* event: session.idle for the root session, or one the host has raised for a
\* summarizer session
LegacyDeliverIdle(sess) ==
    /\ CanDeliver
    /\ sess = "root" \/ sess \in host.idle
    /\ handlers' = [handlers EXCEPT ![nEvents + 1] =
                        [LFree EXCEPT !.kind = "idle", !.sess = sess, !.pc = "get"]]
    /\ host' = [host EXCEPT !.idle = host.idle \ {sess}]
    /\ nEvents' = nEvents + 1
    /\ UNCHANGED <<procEnv, env, lastSent, pushes, notPlugin>>

\* session.error, permission.ask, tool.execute.before of the older plugin:
\* the push under the toggle, without any test of the error or the session
LegacyDeliverOther(kind) ==
    /\ CanDeliver
    /\ LET h == nEvents + 1
           hr == [LFree EXCEPT !.kind = kind]
       IN  CASE kind = "error" ->
                  IF NOTIFY_ERROR
                  THEN gotifyPush(h, hr, "error", ErrorMessage, "fixed", "none")
                  ELSE Return(h, hr)
             [] kind = "permission" ->
                  IF NOTIFY_PERMISSION
                  THEN gotifyPush(h, hr, "permission", PermissionMessage, "fixed", "none")
                  ELSE Return(h, hr)
             [] OTHER ->
                  IF NOTIFY_QUESTION
                  THEN gotifyPush(h, hr, "question", QuestionMessage, "preview", "none")
                  ELSE Return(h, hr)
    /\ nEvents' = nEvents + 1
    /\ UNCHANGED <<procEnv, env, host, lastSent, notPlugin>>

\* client.session.get settles.  A session that is deleted cannot be returned;
\* one that exists can be, or the call fails all the same.
LegacyGetResponds(h, outcome) ==
    /\ handlers[h].pc = "get"
    /\ handlers[h].kind = "idle"
    /\ outcome = "data" => Live(handlers[h].sess)
    /\ LET hr == [handlers[h] EXCEPT !.lookup = LegacyLookupOf(outcome, handlers[h].sess)]
       IN  IF legacyIsChild(outcome, hr.sess)
           THEN IF NOTIFY_SUBAGENT
                THEN gotifyPush(h, hr, "subagent", SubagentMessage, "fixed", "none")
                ELSE Return(h, hr)
           ELSE IF NOTIFY_COMPLETE
                THEN /\ handlers' = [handlers EXCEPT ![h] = [hr EXCEPT !.pc = "messages"]]
                     /\ UNCHANGED pushes
                ELSE Return(h, hr)
    /\ UNCHANGED <<procEnv, env, host, lastSent, nEvents, notPlugin>>

\* sendLatestAssistant of the older plugin from the answer of
\* client.session.messages to its next await (inside summarizeWithLLM, or in
\* gotifyPush when no summarizer is set)
LegacyMessagesResponds(h, outcome) ==
    /\ handlers[h].pc = "messages"
    /\ outcome = "list" => Live(handlers[h].sess)
    /\ LET hr0 == handlers[h]
           list == IF outcome = "list" THEN LegacyMessages(hr0.sess) ELSE <<>>
           last == LegacyLatestFrom(list, Len(list))
           text == extractAssistantText(last)
           hr == [hr0 EXCEPT !.last = last]
       IN  IF list = <<>> \/ last = NoMsg THEN Return(h, hr0)
           ELSE IF lastSent[hr0.sess] = last THEN Return(h, hr0)
           ELSE IF ~parseSummarizer(procEnv.SUMMARIZER)
                THEN gotifyPush(h, hr, "complete",
                                CompleteMessage(preview(text, HEAD, TAIL)), "preview", "none")
                ELSE /\ handlers' = [handlers EXCEPT ![h] = [hr EXCEPT !.pc = "create"]]
                     /\ UNCHANGED pushes
    /\ UNCHANGED <<procEnv, env, host, lastSent, nEvents, notPlugin>>

\* the summarizer session the host creates next
NextSummarizer ==
    IF host.sessions["sum1"].state = "none" THEN "sum1" ELSE "sum2"

\* the end of summarizeWithLLM and the rest of sendLatestAssistant up to the
\* await in gotifyPush: the summary if there is one, else the preview
LegacyPushBody(h, hr) ==
    LET text == extractAssistantText(hr.last)
        body == IF hr.body # <<>> THEN hr.body ELSE preview(text, HEAD, TAIL)
    IN  gotifyPush(h, hr, "complete", CompleteMessage(body),
                   IF hr.body # <<>> THEN "summary" ELSE "preview", "none")

\* client.session.create settles: the session exists with parentID set to the
\* session being notified, and the prompt is sent; or no id comes back, or
\* the call throws, and summarizeWithLLM returns null
LegacyCreateResponds(h, outcome) ==
    /\ handlers[h].pc = "create"
    /\ LET hr == handlers[h]
           id == NextSummarizer
       IN  IF outcome = "created"
           THEN /\ host.sessions[id].state = "none"
                /\ host' = [host EXCEPT !.sessions[id] =
                               [state |-> "live", parent |-> hr.sess, replied |-> FALSE]]
                /\ handlers' = [handlers EXCEPT ![h] =
                                   [hr EXCEPT !.pc = "prompt", !.sum = id, !.timer = TRUE]]
                /\ UNCHANGED pushes
           ELSE /\ LegacyPushBody(h, hr)
                /\ UNCHANGED host
    /\ UNCHANGED <<procEnv, env, lastSent, nEvents, notPlugin>>

\* client.session.prompt settles before the timer: with an answer (a summary
\* or a text that is no usable summary), after which the summarizer session
\* holds the answer and the host raises its session.idle; or it throws
LegacyPromptResponds(h, outcome) ==
    /\ handlers[h].pc = "prompt"
    /\ LET hr == handlers[h]
       IN  /\ outcome # "throws" => host.sessions[hr.sum].state = "live"
           /\ host' = IF outcome = "throws" THEN host
                      ELSE [host EXCEPT !.sessions[hr.sum].replied = TRUE,
                                        !.idle = host.idle \cup {hr.sum}]
           /\ handlers' = [handlers EXCEPT ![h] =
                  [hr EXCEPT !.pc = "delete", !.timer = FALSE,
                             !.body = IF outcome = "summary" THEN SummaryFrom(
                                         [net |-> "ok", ok |-> TRUE, payload |-> "summary"])
                                      ELSE <<>>]]
    /\ UNCHANGED <<procEnv, env, lastSent, pushes, nEvents, notPlugin>>

\* the timer of Promise.race rejects after SUMMARIZER_TIMEOUT
LegacyPromptTimeout(h) ==
    /\ handlers[h].pc = "prompt"
    /\ handlers[h].timer
    /\ handlers' = [handlers EXCEPT ![h] = [handlers[h] EXCEPT !.pc = "delete", !.timer = FALSE]]
    /\ UNCHANGED <<procEnv, env, host, lastSent, pushes, nEvents, notPlugin>>

\* finally: client.session.delete settles (a failure is swallowed), then the
\* push of the summary or the preview
LegacyDeleteResponds(h, deleted) ==
    /\ handlers[h].pc = "delete"
    /\ LET hr == handlers[h]
       IN  /\ host' = IF deleted
                      THEN [host EXCEPT !.sessions[hr.sum].state = "deleted",
                                        !.sessions[hr.sum].replied = FALSE]
                      ELSE host
           /\ LegacyPushBody(h, hr)
    /\ UNCHANGED <<procEnv, env, lastSent, nEvents, notPlugin>>

LegacyNext ==
    \/ \E sess \in LegacySessions : LegacyDeliverIdle(sess)
    \/ \E kind \in {"error", "permission", "question"} : LegacyDeliverOther(kind)
    \/ \E h \in Handlers, o \in GetOutcomes : LegacyGetResponds(h, o)
    \/ \E h \in Handlers, o \in {"list", "nodata", "throws"} : LegacyMessagesResponds(h, o)
    \/ \E h \in Handlers, o \in {"created", "nodata", "throws"} : LegacyCreateResponds(h, o)
    \/ \E h \in Handlers, o \in {"summary", "notext", "throws"} : LegacyPromptResponds(h, o)
    \/ \E h \in Handlers : LegacyPromptTimeout(h)
    \/ \E h \in Handlers, deleted \in BOOLEAN : LegacyDeleteResponds(h, deleted)
    \/ \E h \in Handlers, o \in {"ok", "non2xx", "neterr"} : PushResponds(h, o)

LegacyProcEnvs ==
    [COMPLETE : {"unset"}, SUBAGENT : {"unset", "true"}, PERMISSION : {"unset"},
     ERROR : {"unset"}, QUESTION : {"unset"},
     MODEL : {<<>>}, ENDPOINT : {<<>>}, API_KEY : {<<>>},
     SUMMARIZER : LegacySummarizerValues]

LegacyInit ==
    /\ procEnv \in LegacyProcEnvs
    /\ env = ReadEnv(procEnv)
    /\ host = [serial |-> FALSE, events |-> MaxLegacyEvents,
               sessions |-> [id \in SummarizerIds |-> NoSession], idle |-> {}]
    /\ lastSent = [x \in LegacySessions |-> NoMsg]
    /\ handlers = [h \in Handlers |-> Free]
    /\ pushes = {}
    /\ nEvents = 0
    /\ TextIdle
    /\ InstallIdle

SpecLegacy == LegacyInit /\ [][LegacyNext]_vars

\* a handler of the session.idle event of a summarizer session that is inside
\* sendLatestAssistant
InSendLatest(h) ==
    /\ handlers[h].kind = "idle"
    /\ handlers[h].sess \in SummarizerIds
    /\ handlers[h].pc \in {"messages", "create", "prompt", "delete"}

\* C17 as stated: the session.idle event of a summarizer session never runs
\* sendLatestAssistant, never creates a further summarizer session and never
\* yields a message-body notification.
C17_SummarizerIdleIgnored ==
    /\ \A h \in Handlers : ~InSendLatest(h)
    /\ \A id \in SummarizerIds : host.sessions[id].parent \notin SummarizerIds
    /\ \A p \in CompletionPushes : p.sess \notin SummarizerIds

\* C17, its conclusion alone: summarization does not feed back into more
\* summarization: no summarizer session is created for a summarizer session,
\* and no message-body notification is pushed for one.
C17_NoSummarizerFeedback ==
    /\ \A id \in SummarizerIds : host.sessions[id].parent \notin SummarizerIds
    /\ \A p \in CompletionPushes : p.sess \notin SummarizerIds

\* the older plugin makes no request and creates no session when the
\* summarizer setting is empty or has no '/', and pushes the preview
C15_LegacyNoSessionUnlessConfigured ==
    (Trim(procEnv.SUMMARIZER) = <<>> \/ \A i \in DOMAIN procEnv.SUMMARIZER : procEnv.SUMMARIZER[i] # "/")
        => /\ \A id \in SummarizerIds : host.sessions[id] = NoSession
           /\ \A h \in Handlers : handlers[h].pc \notin {"create", "prompt", "delete"}
           /\ \A p \in CompletionPushes : p.from = "preview" /\ p.body = PreviewBody(p)

====
